---- MODULE Spec2Model ----
(***************************************************************************)
(* Model of the portfolio simulator's day loop (simulation.run_simulation) *)
(* with the KPI export that follows it, of the dividends ledger            *)
(* (simcore.ledger.DividendsLedger) and of utils.align_to_trading_day.     *)
(*                                                                         *)
(* Spec walks the day loop on undated transaction rows; SpecTx walks it on *)
(* a dated transactions file; SpecLedger and SpecAlign exercise the ledger *)
(* and the alignment on their own.                                         *)
(*                                                                         *)
(* Decimal values are integers counting 1/Scale of a currency unit.  Sums, *)
(* differences and products of the modelled magnitudes are exact, as they  *)
(* are under Python's 28-digit Decimal context; a Decimal division rounds  *)
(* half-even to the context precision, modelled as the 1/Scale grid.       *)
(***************************************************************************)
EXTENDS Integers, Sequences, FiniteSets, TLC

\* ------------------------------------------------------------------ bounds
\* Trading days walked by one run.
MaxDays == 3
\* Rows of transactions.csv and scheduled plan installments, together,
\* that are aligned inside the window.
MaxRows == 3
\* Fractional decimal digits kept by a Decimal division in the model.
PrecDigits == 1

\* ------------------------------------------------------- program constants
REINVESTMENT_THRESHOLD == 250
BROKER_FEE == 5
ENABLE_MONTHLY_REINVESTMENT == TRUE
\* day.day > 11
CUTOFF_DAY == 11

\* ----------------------------------------------------------- Decimal model
\* Reinvestment weights are multiples of 1/WDen (normalised upstream).
WDen == 2 ^ 2
Scale == (WDen ^ MaxDays) * (10 ^ PrecDigits)
D(n) == n * Scale

Abs(x) == IF x < 0 THEN 0 - x ELSE x

\* Decimal.__floordiv__: the integer part of the quotient, truncated
\* towards zero.
TruncDiv(a, b) ==
  IF a >= 0 THEN a \div b ELSE 0 - ((0 - a) \div b)

\* round-half-even of the rational n/d (d > 0) to an integer
RoundHalfEven(n, d) ==
  LET fl == n \div d
      r2 == 2 * (n - fl * d)
  IN  IF r2 < d THEN fl
      ELSE IF r2 > d THEN fl + 1
      ELSE IF fl % 2 = 0 THEN fl ELSE fl + 1

\* Decimal division of a scaled value by an integer count
DecDiv(a, k) == RoundHalfEven(a, k)

\* --------------------------------------------------------------- the inputs
Syms == {"A", "B"}

\* One trading day of the input: its month count (year * 12 + month), its
\* day of month, per symbol whether price_data[s] has a row for the day
\* and the row's Close and Dividend (per share, 0 when none is paid), and
\* whether the day is a business day.
Row(c) == [idx |-> TRUE, Close |-> D(c), Dividend |-> 0]
RowDiv(c, dv) == [idx |-> TRUE, Close |-> D(c), Dividend |-> D(dv)]
NoRow == [idx |-> FALSE, Close |-> 0, Dividend |-> 0]
TDay(ym, dom, a, b) == [ym |-> ym, dom |-> dom, A |-> a, B |-> b, bday |-> TRUE]
\* a day with price rows that is not on the business-day calendar (full_index)
Weekend(ym, dom, a, b) == [ym |-> ym, dom |-> dom, A |-> a, B |-> b, bday |-> FALSE]

\* the price histories the runs are checked on
Datasets ==
  { \* two months, each with its first day past the cutoff
    << TDay(1, 11, Row(100), Row(300)), TDay(1, 12, RowDiv(100, 1), Row(300)),
       TDay(2, 12, Row(103), Row(300)), TDay(2, 20, Row(103), NoRow) >>,
    \* two days past the cutoff in one month; then the same month a year later
    << TDay(1, 12, Row(100), Row(300)), TDay(1, 20, Row(103), Row(300)),
       TDay(13, 12, Row(100), Row(300)), TDay(13, 20, Row(100), Row(300)) >>,
    \* a symbol without a row on the trigger day; a month that ends before the
    \* cutoff, on a Saturday with price rows
    << TDay(1, 11, Row(100), Row(300)), TDay(1, 20, NoRow, Row(300)),
       Weekend(2, 11, Row(103), Row(300)), TDay(3, 12, Row(100), Row(300)) >> }

NA == [na |-> TRUE, v |-> 0]
Val(x) == [na |-> FALSE, v |-> x]

\* rows of transactions.csv (price and fee are optional columns)
TxRow(s, t, q, p, f) == [symbol |-> s, type |-> t, quantity |-> q, price |-> p, fee |-> f]
TxRows ==
  { TxRow("A", "buy", 1, NA, NA),
    TxRow("A", "buy", 2, Val(D(101)), Val(D(2))),
    TxRow("A", "sell", 1, Val(D(101)), Val(D(2))),
    TxRow("A", "sell", 2, NA, NA) }

\* scheduled installments (rows of the expanded plan)
PlanRows ==
  { [symbol |-> "A", amount |-> D(3), fee |-> NA],
    [symbol |-> "A", amount |-> D(560), fee |-> NA],
    [symbol |-> "B", amount |-> D(560), fee |-> Val(D(2))],
    \* leaves exactly the threshold: 555 - 5 - 300
    [symbol |-> "B", amount |-> D(555), fee |-> NA] }

\* reinvest_weights, in the dict's insertion order: <<symbol, weight * WDen>>
WeightConfigs ==
  { << >>,
    << <<"A", 4>> >>,
    << <<"A", 1>>, <<"B", 3>> >> }

\* --------------------------------------------------------------- the state
VARIABLES
  pc,                     \* position in the day loop
  trading_days,           \* the run's price history
  nDays, nRows,           \* inputs consumed so far
  day,                    \* [ym, dom]: the trading day being processed
  price,                  \* price_data rows of the day
  filled,                 \* filled_price_data: last business-day Close per symbol
  reinvest_weights,
  held, avg_price, cash_buffers, dividend_buffers, realized_gains,
  monthly_stats,
  current_month, reinvest_day_triggered,
  total, queue,           \* locals of the reinvestment block
  actions,                \* the day's action log
  row,                    \* the last row appended to rows
  step,                   \* the loop iteration just executed and the state it started from
  check,                  \* the last trigger check: its day, the pooled total it
                          \* measured, the state it started from, what the
                          \* target loop allocated and spent per symbol since,
                          \* and the months in which the target loop has run
  trigger_days,           \* the days on which the trigger check ran
  events,                 \* DividendsLedger._events
  csv,                    \* the rows to_csv() wrote last
  tx_df,                  \* transactions.csv when the run reads a dated file
  tx_pos,                 \* rows of the day's group the transaction loop has taken
  applied,                \* per row of tx_df: the days it was processed on, and how
  rows,                   \* the rows appended so far
  kpi,                    \* what the KPI export computed
  aligned,                \* the last call of align_to_trading_day: its arguments,
                          \* its result, and valid_days after it
  reinvestment_threshold, \* run_simulation's local of that name
  expansion               \* the expansion of one investment-plan row: the row,
                          \* the loop's position, current and scheduled

vars == << pc, trading_days, nDays, nRows, day, price, filled, reinvest_weights,
           held, avg_price, cash_buffers, dividend_buffers, realized_gains,
           monthly_stats, current_month, reinvest_day_triggered,
           total, queue, actions, row, step, check, trigger_days, events, csv,
           tx_df, tx_pos, applied, rows, kpi, aligned, reinvestment_threshold,
           expansion >>

fileVars == << tx_df, tx_pos, applied, aligned >>

setupVars == << reinvestment_threshold, expansion >>

ledgerVars == << held, avg_price, cash_buffers, dividend_buffers, realized_gains >>

\* ------------------------------------------------------------ day loop
\* f"{x:.2f}": a Decimal formatted to cents (half-even), as a count of cents
Fmt2(x) == RoundHalfEven(x * 100, Scale)

ZeroStats ==
  [first_value |-> 0, last_value |-> 0, dividends |-> 0, contributions |-> 0,
   reinvested |-> 0, realized_gain |-> 0, fees |-> 0]

\* "%Y-%m" of the day
month_str == day.ym
\* day.month of an absolute month count
MonthOf(ym) == ((ym - 1) % 12) + 1

NoTx == [symbol |-> "", type |-> "", quantity |-> 0, price |-> NA, fee |-> NA,
         amount |-> 0, share_alloc |-> 0]

Pre ==
  [held |-> held, avg_price |-> avg_price, cash_buffers |-> cash_buffers,
   dividend_buffers |-> dividend_buffers, realized_gains |-> realized_gains,
   monthly_stats |-> monthly_stats, actions |-> actions, total |-> total,
   reinvest_day_triggered |-> reinvest_day_triggered,
   current_month |-> current_month, day |-> day]

Step(kind, tx) == [kind |-> kind, tx |-> tx, pre |-> Pre]

\* the values of the --threshold option: absent, "100", "300"
ThresholdArgs == { NA, Val(D(100)), Val(D(300)) }

\* Decimal(reinvestment_threshold if reinvestment_threshold else REINVESTMENT_THRESHOLD)
ArgThreshold(arg) == IF arg.na THEN D(REINVESTMENT_THRESHOLD) ELSE arg.v

\* no plan row is being expanded
NoExpansion ==
  [pc |-> "none",
   row |-> [symbol |-> "", amount |-> 0, fee |-> NA, interval_months |-> 0,
            start_date |-> [ym |-> 0, dom |-> 0]],
   current |-> [ym |-> 0, dom |-> 0], scheduled |-> << >>]

\* the state before the first trading day, for a run on the dated file f
\* called with the threshold argument arg, with the plan expansion at e
InitSetup(f, arg, e) ==
  /\ expansion = e
  /\ reinvestment_threshold = ArgThreshold(arg)
  /\ pc = "day"
  /\ tx_df = f
  /\ tx_pos = 0
  /\ applied = [i \in DOMAIN f |-> << >>]
  /\ aligned = [called |-> FALSE, date |-> [ym |-> 0, dom |-> 0], valid_days |-> << >>,
                result |-> [ym |-> 0, dom |-> 0], valid_days_after |-> << >>]
  /\ rows = << >>
  /\ kpi = [exported |-> FALSE, drawdown |-> << >>, capital_gain |-> 0,
            capital_gain_tax |-> 0, net_capital_gain |-> 0]
  /\ trading_days \in Datasets
  /\ nDays = 0 /\ nRows = 0
  /\ day = [ym |-> 0, dom |-> 0]
  /\ price = [s \in Syms |-> NoRow]
  /\ filled = [s \in Syms |-> [idx |-> FALSE, Close |-> 0]]
  /\ reinvest_weights \in WeightConfigs
  /\ held = [s \in Syms |-> 0]
  /\ avg_price = [s \in Syms |-> 0]
  /\ cash_buffers = [s \in Syms |-> 0]
  /\ dividend_buffers = [s \in Syms |-> 0]
  /\ realized_gains = [s \in Syms |-> 0]
  /\ monthly_stats = << >>
  /\ current_month = 0
  /\ reinvest_day_triggered = FALSE
  /\ total = 0
  /\ queue = << >>
  /\ actions = << >>
  /\ row = [date |-> [ym |-> 0, dom |-> 0], total_value |-> 0, realized_gain |-> 0,
            unrealized_gain |-> 0, daily_fee |-> 0, actions |-> << >>]
  /\ step = [kind |-> "init", tx |-> NoTx, pre |-> Pre]
  /\ check = [day |-> [ym |-> 0, dom |-> 0], due |-> FALSE, total |-> 0, pre |-> Pre,
              alloc |-> [s \in Syms |-> 0], spent |-> [s \in Syms |-> 0],
              executed |-> {}]
  /\ trigger_days = {}
  /\ events = << >>
  /\ csv = << >>

\* a run whose plan expansion is not followed
InitArgs(f, arg) == InitSetup(f, arg, NoExpansion)

\* a run called without a threshold argument
InitWith(f) == InitArgs(f, NA)

\* a run whose transactions arrive as undated rows, any of them on any day
Init == InitWith(<< >>)

\* for day in trading_days: actions = []; month_str; monthly_stats entry
NextDay ==
  /\ pc = "day"
  /\ nDays < MaxDays
  /\ nDays < Len(trading_days)
  /\ LET d == trading_days[nDays + 1]
     IN  /\ day' = [ym |-> d.ym, dom |-> d.dom]
         /\ price' = [s \in Syms |-> d[s]]
         /\ filled' = [s \in Syms |-> IF d[s].idx /\ d.bday
                                         THEN [idx |-> TRUE, Close |-> d[s].Close]
                                         ELSE filled[s]]
         /\ monthly_stats' =
              [m \in DOMAIN monthly_stats \cup {d.ym} |->
                 IF m \in DOMAIN monthly_stats THEN monthly_stats[m] ELSE ZeroStats]
  /\ nDays' = nDays + 1
  /\ actions' = << >>
  /\ pc' = "tx"
  /\ step' = Step("day", NoTx)
  /\ tx_pos' = 0
  /\ UNCHANGED << setupVars, aligned, rows, kpi, tx_df, applied, events, csv, check, trigger_days, trading_days, nRows, reinvest_weights, ledgerVars, current_month,
                  reinvest_day_triggered, total, queue, row >>

UnweightedAvg(avg, held_before, p, qty) == DecDiv(avg + p, 2)

\* the weighted average cost after buying qty at p
WeightedAvg(avg, held_before, p, qty) ==
  IF held_before + qty > 0
    THEN DecDiv(avg * held_before + p * qty, held_before + qty)
    ELSE p

AddStatEveryMonth(ms, m, field, x) ==
  [k \in DOMAIN ms |-> [ms[k] EXCEPT ![field] = @ + x]]

\* monthly_stats[month_str][field] += x
AddStat(ms, m, field, x) == [ms EXCEPT ![m][field] = @ + x]

LogActionFirst(acts, a) == << a >> \o acts

\* actions.append(...)
LogAction(acts, a) == Append(acts, a)

TxPrice(tx) == IF tx.price.na THEN price[tx.symbol].Close ELSE tx.price.v
TxFee(tx) == IF tx.fee.na THEN D(BROKER_FEE) ELSE tx.fee.v

\* the row with its price and fee as the loop resolved them
AsTx(r) == [NoTx EXCEPT !.symbol = r.symbol, !.type = r.type, !.quantity = r.quantity,
                        !.price = Val(TxPrice(r)), !.fee = Val(TxFee(r))]

\* a transaction of the day whose symbol has no price row that day: continue
TxNoPrice(tx) ==
  /\ ~ price[tx.symbol].idx
  /\ step' = Step("tx_skip", AsTx(tx))
  /\ UNCHANGED << ledgerVars, monthly_stats, actions >>

TxBuy(tx) ==
  /\ price[tx.symbol].idx
  /\ tx.type = "buy"
  /\ LET symbol == tx.symbol
         qty == tx.quantity
         p == TxPrice(tx)
     IN  /\ held' = [held EXCEPT ![symbol] = @ + qty]
         /\ avg_price' = [avg_price EXCEPT
                            ![symbol] = WeightedAvg(avg_price[symbol], held[symbol], p, qty)]
         /\ monthly_stats' =
              AddStat(AddStat(monthly_stats, month_str, "contributions", qty * p),
                      month_str, "fees", TxFee(tx))
         /\ actions' = LogAction(actions, [act |-> "buy", qty |-> qty, symbol |-> symbol,
                                        price |-> Fmt2(p), gain |-> 0])
  /\ step' = Step("buy", AsTx(tx))
  /\ UNCHANGED << cash_buffers, dividend_buffers, realized_gains >>

GainWithoutCostBasis(p, avg, qty) == p * qty

\* gain = proceeds - cost_basis
RealizedGain(p, avg, qty) == p * qty - avg * qty

SellAcceptedIfAnyHeld(h, qty) == h > 0

\* whether a sell of qty is accepted
SellAccepted(h, qty) == h >= qty

TxSell(tx) ==
  /\ price[tx.symbol].idx
  /\ tx.type = "sell"
  /\ LET symbol == tx.symbol
         qty == tx.quantity
         p == TxPrice(tx)
         gain == RealizedGain(p, avg_price[symbol], qty)
     IN  IF SellAccepted(held[symbol], qty)
           THEN /\ realized_gains' = [realized_gains EXCEPT ![symbol] = @ + gain]
                /\ monthly_stats' =
                     AddStat(AddStat(monthly_stats, month_str, "realized_gain", gain),
                             month_str, "fees", TxFee(tx))
                /\ held' = [held EXCEPT ![symbol] = @ - qty]
                /\ actions' = LogAction(actions, [act |-> "sell", qty |-> qty, symbol |-> symbol,
                                               price |-> Fmt2(p), gain |-> Fmt2(gain)])
                /\ step' = Step("sell", AsTx(tx))
           ELSE /\ UNCHANGED << realized_gains, monthly_stats, held, actions >>
                /\ step' = Step("sell_rejected", AsTx(tx))
  /\ UNCHANGED << avg_price, cash_buffers, dividend_buffers >>

\* one iteration of: for tx in tx_by_day.get_group(day).itertuples()
Transaction ==
  /\ pc = "tx"
  /\ nRows < MaxRows
  /\ \E tx \in TxRows : TxNoPrice(tx) \/ TxBuy(tx) \/ TxSell(tx)
  /\ nRows' = nRows + 1
  /\ UNCHANGED << rows, kpi, fileVars, setupVars, events, csv, check, trigger_days, pc, trading_days, nDays, day, price, filled, reinvest_weights,
                  current_month, reinvest_day_triggered, total, queue, row >>

\* the day's transactions are exhausted
EndTransactions ==
  /\ pc = "tx"
  /\ pc' = "plan"
  /\ UNCHANGED << rows, kpi, fileVars, setupVars, events, csv, check, trigger_days, trading_days, nDays, nRows, day, price, filled, reinvest_weights, ledgerVars,
                  monthly_stats, current_month, reinvest_day_triggered, total, queue,
                  actions, row, step >>
PlanFee(tx) == IF tx.fee.na THEN D(BROKER_FEE) ELSE tx.fee.v

AsPlan(r) == [NoTx EXCEPT !.symbol = r.symbol, !.type = "plan",
                          !.amount = r.amount, !.fee = Val(PlanFee(r))]

AffordableQtyRoundedUp(amount, fee, p) == TruncDiv(amount - fee, p) + 1

\* int((amount - fee) // price)
AffordableQty(amount, fee, p) == TruncDiv(amount - fee, p)

PlanNoPrice(tx) ==
  /\ ~ price[tx.symbol].idx
  /\ step' = Step("plan_skip", AsPlan(tx))
  /\ UNCHANGED << ledgerVars, monthly_stats, actions >>

PlanBuy(tx) ==
  /\ price[tx.symbol].idx
  /\ LET symbol == tx.symbol
         amount == tx.amount
         fee == PlanFee(tx)
         p == price[symbol].Close
         qty == AffordableQty(amount, fee, p)
         leftover == amount - qty * p - fee
     IN  IF qty > 0
           THEN /\ held' = [held EXCEPT ![symbol] = @ + qty]
                /\ avg_price' = [avg_price EXCEPT
                     ![symbol] = WeightedAvg(avg_price[symbol], held[symbol], p, qty)]
                /\ monthly_stats' =
                     AddStat(AddStat(monthly_stats, month_str, "contributions", qty * p),
                             month_str, "fees", fee)
                /\ cash_buffers' = [cash_buffers EXCEPT ![symbol] = @ + leftover]
                /\ actions' = LogAction(actions, [act |-> "plan buy", qty |-> qty,
                                               symbol |-> symbol, price |-> Fmt2(p), gain |-> 0])
                /\ step' = Step("plan", [AsPlan(tx) EXCEPT !.quantity = qty, !.price = Val(p)])
           ELSE /\ UNCHANGED << held, avg_price, monthly_stats, cash_buffers, actions >>
                /\ step' = Step("plan_none", [AsPlan(tx) EXCEPT !.quantity = qty, !.price = Val(p)])
  /\ UNCHANGED << dividend_buffers, realized_gains >>

\* one iteration of: for tx in plan_df_expanded.get_group(day).itertuples()
PlanInstallment ==
  /\ pc = "plan"
  /\ nRows < MaxRows
  /\ \E tx \in PlanRows : PlanNoPrice(tx) \/ PlanBuy(tx)
  /\ nRows' = nRows + 1
  /\ UNCHANGED << rows, kpi, fileVars, setupVars, events, csv, check, trigger_days, pc, trading_days, nDays, day, price, filled, reinvest_weights,
                  current_month, reinvest_day_triggered, total, queue, row >>

\* the day's installments are exhausted
EndPlan ==
  /\ pc = "plan"
  /\ pc' = "reinvest"
  /\ UNCHANGED << rows, kpi, fileVars, setupVars, events, csv, check, trigger_days, trading_days, nDays, nRows, day, price, filled, reinvest_weights, ledgerVars,
                  monthly_stats, current_month, reinvest_day_triggered, total, queue,
                  actions, row, step >>

RECURSIVE SumOver(_, _)
SumOver(f, S) ==
  IF S = {} THEN 0
  ELSE LET x == CHOOSE y \in S : TRUE IN f[x] + SumOver(f, S \ {x})

\* sum(dividend_buffers[s] + cash_buffers[s] for s in all_symbols)
PooledTotal == SumOver([s \in Syms |-> dividend_buffers[s] + cash_buffers[s]], Syms)

\* sorted(items, key=lambda x: -x[1]): a stable sort by descending weight
RECURSIVE InsertByWeight(_, _)
InsertByWeight(q, it) ==
  IF q = << >> THEN << it >>
  ELSE IF Head(q)[2] >= it[2] THEN << Head(q) >> \o InsertByWeight(Tail(q), it)
  ELSE << it >> \o q

RECURSIVE SortedByWeight(_)
SortedByWeight(items) ==
  IF items = << >> THEN << >>
  ELSE InsertByWeight(SortedByWeight(SubSeq(items, 1, Len(items) - 1)), items[Len(items)])

QueueWithDefaultTarget(weights) ==
  IF weights = << >> THEN << << "A", WDen >> >> ELSE SortedByWeight(weights)

\* queue = sorted(reinvest_weights.items(), key=lambda x: -x[1])
ReinvestQueue(weights) == SortedByWeight(weights)

TriggerEveryDayPastCutoff(triggered, d) == d.dom > CUTOFF_DAY

\* if not reinvest_day_triggered and day.day > 11
TriggerDue(triggered, d) == ~ triggered /\ d.dom > CUTOFF_DAY

ThresholdPositive(t) == t > 0
ThresholdInverted(t) == t <= D(REINVESTMENT_THRESHOLD)

\* if total >= REINVESTMENT_THRESHOLD
ThresholdMet(t) == t >= D(REINVESTMENT_THRESHOLD)

\* the month check and the trigger check of the day
ReinvestCheck ==
  /\ pc = "reinvest"
  /\ LET changed == ENABLE_MONTHLY_REINVESTMENT /\ MonthOf(day.ym) # current_month
         trig == IF changed THEN FALSE ELSE reinvest_day_triggered
         due == ENABLE_MONTHLY_REINVESTMENT /\ TriggerDue(trig, day)
     IN  /\ current_month' = IF changed THEN MonthOf(day.ym) ELSE current_month
         /\ reinvest_day_triggered' = IF due THEN TRUE ELSE trig
         /\ total' = IF due THEN PooledTotal ELSE total
         /\ check' = [day |-> day, due |-> due, total |-> PooledTotal, pre |-> Pre,
                      alloc |-> [s \in Syms |-> 0], spent |-> [s \in Syms |-> 0],
                      executed |-> IF due /\ ThresholdMet(PooledTotal)
                                     THEN check.executed \cup {day.ym}
                                     ELSE check.executed]
         /\ trigger_days' = IF due THEN trigger_days \cup {day} ELSE trigger_days
         /\ IF due /\ ThresholdMet(PooledTotal)
              THEN /\ queue' = ReinvestQueue(reinvest_weights)
                   /\ pc' = "targets"
                   /\ step' = Step("trigger", NoTx)
              ELSE /\ queue' = queue
                   /\ pc' = "snapshot"
                   /\ step' = Step(IF due THEN "below" ELSE "no_trigger", NoTx)
  /\ UNCHANGED << rows, kpi, fileVars, setupVars, events, csv, trading_days, nDays, nRows, day, price, filled, reinvest_weights, ledgerVars,
                  monthly_stats, actions, row >>

\* reinvest_weights.get(f"fee_{tgt}", BROKER_FEE)
ReinvestFee(tgt) == D(BROKER_FEE)

\* total * reinvest_weights[tgt]
ShareAlloc(t, w) == (t * w) \div WDen

\* if qty > 0 and share_alloc > cost
ReinvestAffordable(qty, share_alloc, cost) == qty > 0 /\ share_alloc > cost

CashLessCost(old, share_alloc, cost) == old - cost

\* cash_buffers[tgt] = share_alloc - cost
CashAfterReinvest(old, share_alloc, cost) == share_alloc - cost

\* one iteration of: for tgt, _ in queue
ReinvestTarget ==
  /\ pc = "targets"
  /\ queue # << >>
  /\ LET tgt == Head(queue)[1]
         w == Head(queue)[2]
         p == price[tgt].Close
         reinvest_fee == ReinvestFee(tgt)
         share_alloc == ShareAlloc(total, w)
         qty == AffordableQty(share_alloc, reinvest_fee, p)
         cost == qty * p + reinvest_fee
         tx == [NoTx EXCEPT !.symbol = tgt, !.type = "reinvest", !.fee = Val(reinvest_fee),
                            !.share_alloc = share_alloc]
     IN  IF price[tgt].idx /\ ReinvestAffordable(qty, share_alloc, cost)
           THEN /\ held' = [held EXCEPT ![tgt] = @ + qty]
                /\ avg_price' = [avg_price EXCEPT
                     ![tgt] = WeightedAvg(avg_price[tgt], held[tgt], p, qty)]
                /\ monthly_stats' =
                     AddStat(AddStat(monthly_stats, month_str, "reinvested", cost),
                             month_str, "fees", reinvest_fee)
                /\ total' = total - cost
                /\ cash_buffers' = [cash_buffers EXCEPT
                     ![tgt] = CashAfterReinvest(@, share_alloc, cost)]
                /\ actions' = LogAction(actions, [act |-> "reinvest", qty |-> qty,
                                               symbol |-> tgt, price |-> Fmt2(p), gain |-> 0])
                /\ step' = Step("reinvest", [tx EXCEPT !.quantity = qty, !.price = Val(p)])
                /\ check' = [check EXCEPT !.alloc[tgt] = share_alloc, !.spent[tgt] = @ + cost]
           ELSE /\ UNCHANGED << held, avg_price, monthly_stats, total, cash_buffers, actions >>
                /\ step' = Step("reinvest_none", tx)
                /\ check' = [check EXCEPT !.alloc[tgt] = share_alloc]
  /\ queue' = Tail(queue)
  /\ UNCHANGED << rows, kpi, fileVars, setupVars, events, csv, trigger_days, pc, trading_days, nDays, nRows, day, price, filled, reinvest_weights,
                  dividend_buffers, realized_gains, current_month,
                  reinvest_day_triggered, row >>

\* dividend_buffers = {s: Decimal("0.0") for s in all_symbols}
ReinvestReset ==
  /\ pc = "targets"
  /\ queue = << >>
  /\ dividend_buffers' = [s \in Syms |-> 0]
  /\ pc' = "snapshot"
  /\ step' = Step("reset", NoTx)
  /\ UNCHANGED << rows, kpi, fileVars, setupVars, events, csv, check, trigger_days, trading_days, nDays, nRows, day, price, filled, reinvest_weights,
                  held, avg_price, cash_buffers, realized_gains, monthly_stats,
                  current_month, reinvest_day_triggered, total, queue, actions, row >>

\* day in filled_price_data[s].index: the index is full_index
InFullIndex == trading_days[nDays].bday

\* values[s]: held * the forward-filled Close, or 0 without one
ValueOf(s) == IF InFullIndex /\ filled[s].idx THEN held[s] * filled[s].Close ELSE 0
UnrealizedOf(s) == ValueOf(s) - avg_price[s] * held[s]

\* daily_fee of the row
DailyFee(fees, acts) == IF acts # << >> THEN fees ELSE 0

\* the valuation, the month's first/last value and the appended row
Snapshot ==
  /\ pc = "snapshot"
  /\ LET total_value == SumOver([s \in Syms |-> ValueOf(s)], Syms)
         total_unrealized == SumOver([s \in Syms |-> UnrealizedOf(s)], Syms)
         total_realized == SumOver(realized_gains, Syms)
         first == IF monthly_stats[month_str].first_value = 0
                    THEN total_value ELSE monthly_stats[month_str].first_value
     IN  /\ monthly_stats' = [monthly_stats EXCEPT ![month_str].first_value = first,
                                                   ![month_str].last_value = total_value]
         /\ row' = [date |-> day, total_value |-> total_value,
                    realized_gain |-> total_realized,
                    unrealized_gain |-> total_unrealized,
                    daily_fee |-> DailyFee(monthly_stats[month_str].fees, actions),
                    actions |-> actions]
  /\ rows' = Append(rows, row')
  /\ pc' = "day"
  /\ step' = Step("snapshot", NoTx)
  /\ UNCHANGED << kpi, fileVars, setupVars, events, csv, check, trigger_days, trading_days, nDays, nRows, day, price, filled, reinvest_weights, ledgerVars,
                  current_month, reinvest_day_triggered, total, queue, actions >>

\* ------------------------------------------------------- the KPI export
\* Decimal("0.26"), in percent
TAX_RATE_DEFAULT == 26

\* float_format="%.4f": the csv files keep four decimals
CsvScale == 10 ^ 4

\* a value written to daily_portfolio.csv and read back, counted in
\* 1/CsvScale
Csv4(x) ==
  LET q == x \div Scale
  IN  q * CsvScale + RoundHalfEven((x - q * Scale) * CsvScale, Scale)

\* daily_df['total_value']
TotalValueSeries == [i \in DOMAIN rows |-> Csv4(rows[i].total_value)]

\* series.cummax() at position i
RECURSIVE CumMax(_, _)
CumMax(series, i) ==
  IF i = 1 THEN series[1]
  ELSE LET m == CumMax(series, i - 1)
       IN  IF series[i] > m THEN series[i] ELSE m

\* (series - peak) / peak, element by element on floats: the quotient as
\* numerator and denominator, and NaN for 0.0 / 0.0
calculate_drawdown(series) ==
  [i \in DOMAIN series |->
     LET peak == CumMax(series, i)
     IN  IF peak = 0 /\ series[i] - peak = 0
           THEN [nan |-> TRUE, num |-> 0, den |-> 0]
           ELSE [nan |-> FALSE, num |-> series[i] - peak, den |-> peak]]

\* capital_gain * TAX_RATE_DEFAULT, counted in 1/(100 * CsvScale)
CapitalGainTax(capital_gain) == capital_gain * TAX_RATE_DEFAULT

\* the number of trading days inside the window
RunLength == IF Len(trading_days) < MaxDays THEN Len(trading_days) ELSE MaxDays

\* the day loop is over: generate_additional_kpis and write_kpis_to_file on
\* the files the run wrote.  generate_dividend_yield_by_symbol, called
\* before them, completes only if some symbol had a non-zero value in some
\* period (it indexes a column of an empty frame otherwise).
generate_additional_kpis ==
  /\ pc = "day"
  /\ nDays = RunLength
  /\ \E i \in DOMAIN rows : rows[i].total_value # 0
  /\ LET realized == Csv4(rows[Len(rows)].realized_gain)
         unrealized == Csv4(rows[Len(rows)].unrealized_gain)
         capital_gain == realized + unrealized
         capital_gain_tax == CapitalGainTax(capital_gain)
     IN  kpi' = [exported |-> TRUE,
                 drawdown |-> calculate_drawdown(TotalValueSeries),
                 capital_gain |-> capital_gain,
                 capital_gain_tax |-> capital_gain_tax,
                 net_capital_gain |-> capital_gain * 100 - capital_gain_tax]
  /\ pc' = "done"
  /\ step' = Step("kpis", NoTx)
  /\ UNCHANGED << rows, fileVars, setupVars, events, csv, check, trigger_days, trading_days, nDays,
                  nRows, day, price, filled, reinvest_weights, ledgerVars, monthly_stats,
                  current_month, reinvest_day_triggered, total, queue, actions, row >>

Next ==
  \/ NextDay
  \/ Transaction
  \/ EndTransactions
  \/ PlanInstallment
  \/ EndPlan
  \/ ReinvestCheck
  \/ ReinvestTarget
  \/ ReinvestReset
  \/ Snapshot
  \/ generate_additional_kpis

Spec == Init /\ [][Next]_vars

\* runs of one price history and one target that differ in the threshold
\* argument; the plan is their only source of cash
InitArg ==
  /\ \E arg \in ThresholdArgs : InitArgs(<< >>, arg)
  /\ reinvest_weights = << <<"A", WDen>> >>
  /\ trading_days[1].dom <= CUTOFF_DAY /\ trading_days[2].dom > CUTOFF_DAY
  /\ trading_days[2].ym = trading_days[1].ym

NextArg ==
  \/ NextDay
  \/ EndTransactions
  \/ PlanInstallment
  \/ EndPlan
  \/ ReinvestCheck
  \/ ReinvestTarget
  \/ ReinvestReset
  \/ Snapshot

SpecArg == InitArg /\ [][NextArg]_vars
\* ------------------------------------------------- the dividends ledger
\* Bound of the ledger runs: events recorded in one ledger.
MaxEvents == 1

\* An event's Decimal fields count these fractions of a unit; qty and
\* fx_to_base are whole numbers in the modelled inputs.
DpsScale == 10 ^ 3
RateScale == 10 ^ 3
DomScale == 10 ^ 2
FeeScale == 10 ^ 2

\* q2 of a value counted in 1/scale (scale a multiple of 100), in cents
Q2Cents(x, scale) == RoundHalfEven(x, scale \div 100)
\* q2 of a value counted in 1/scale, counted in 1/scale again
Q2(x, scale) == Q2Cents(x, scale) * (scale \div 100)

\* the arguments of record(): qty, dps_gross, fx_to_base, withholding_rate,
\* domestic_tax_rate, broker_fee
RecordArgs ==
  [qty : {1, 10}, dps : {250, 333, 1000}, fx : {1}, wr : {0, 150, 260, 374},
   dr : {0, 10, 26}, fee : {0, 50}]

\* DividendEvent(...) as record() builds it: the derived fields are None
NewEvent(a) ==
  [qty |-> a.qty, dividend_per_share_gross |-> a.dps, fx_to_base |-> a.fx,
   withholding_rate |-> a.wr, domestic_tax_rate |-> a.dr, broker_fee |-> a.fee,
   derived |-> FALSE,
   dividend_gross |-> 0, withholding_tax |-> 0, domestic_tax |-> 0, dividend_net |-> 0,
   recorded |-> a, finalized |-> 0]

DomesticTaxOnGross(gross_base, wh) == gross_base * RateScale

\* (gross_base - wh): the amount the domestic tax is levied on, counted in
\* 1/(DpsScale * RateScale)
DomesticTaxBase(gross_base, wh) == gross_base * RateScale - wh

\* the body of finalize()'s loop for one event
FinalizeEvent(ev) ==
  LET gross_local == ev.qty * ev.dividend_per_share_gross
      gross_base == gross_local * ev.fx_to_base
      wh == gross_base * ev.withholding_rate
      dom == DomesticTaxBase(gross_base, wh) * ev.domestic_tax_rate
      net == gross_base * RateScale * DomScale - wh * DomScale - dom
               - ev.broker_fee * ((DpsScale * RateScale * DomScale) \div FeeScale)
  IN  [ev EXCEPT
         !.derived = TRUE,
         !.dividend_gross = Q2Cents(gross_base, DpsScale),
         !.withholding_tax = Q2Cents(wh, DpsScale * RateScale),
         !.domestic_tax = Q2Cents(dom, DpsScale * RateScale * DomScale),
         !.dividend_net = Q2Cents(net, DpsScale * RateScale * DomScale),
         !.dividend_per_share_gross = Q2(@, DpsScale),
         !.broker_fee = Q2(@, FeeScale),
         !.withholding_rate = Q2(@, RateScale),
         !.domestic_tax_rate = Q2(@, DomScale),
         !.finalized = IF @ < 2 THEN @ + 1 ELSE @]

\* DividendsLedger.record
Record ==
  /\ Len(events) < MaxEvents
  /\ \E a \in RecordArgs : events' = Append(events, NewEvent(a))
  /\ UNCHANGED csv

\* DividendsLedger.finalize
Finalize ==
  /\ events' = [i \in DOMAIN events |-> FinalizeEvent(events[i])]
  /\ UNCHANGED csv

\* a row of the file: every Decimal field as f"{v:.2f}", in cents
CsvRow(ev) ==
  [qty |-> ev.qty * 100,
   dividend_per_share_gross |-> Q2Cents(ev.dividend_per_share_gross, DpsScale),
   fx_to_base |-> ev.fx_to_base * 100,
   withholding_rate |-> Q2Cents(ev.withholding_rate, RateScale),
   domestic_tax_rate |-> Q2Cents(ev.domestic_tax_rate, DomScale),
   broker_fee |-> Q2Cents(ev.broker_fee, FeeScale),
   dividend_gross |-> ev.dividend_gross, withholding_tax |-> ev.withholding_tax,
   domestic_tax |-> ev.domestic_tax, dividend_net |-> ev.dividend_net]

\* DividendsLedger.to_csv: finalize(), then one row per event
ToCsv ==
  /\ events' = [i \in DOMAIN events |-> FinalizeEvent(events[i])]
  /\ csv' = [i \in DOMAIN events |-> CsvRow(FinalizeEvent(events[i]))]

simVars == << pc, trading_days, nDays, nRows, day, price, filled, reinvest_weights,
              held, avg_price, cash_buffers, dividend_buffers, realized_gains,
              monthly_stats, current_month, reinvest_day_triggered,
              total, queue, actions, row, step, check, trigger_days,
              tx_df, tx_pos, applied, rows, kpi, aligned, setupVars >>

InitLedger ==
  /\ Init
  /\ reinvest_weights = << >>
  /\ trading_days = CHOOSE d \in Datasets : TRUE

NextLedger ==
  \/ Record /\ UNCHANGED simVars
  \/ Finalize /\ UNCHANGED simVars
  \/ ToCsv /\ UNCHANGED simVars

SpecLedger == InitLedger /\ [][NextLedger]_vars

\* ------------------------------------------------- runs on a dated file
\* pd.NaT
NaT == [ym |-> 0, dom |-> 0]
Date(ym, dom) == [ym |-> ym, dom |-> dom]

\* d1 >= d2 on dates
OnOrAfter(d1, d2) == d1.ym > d2.ym \/ (d1.ym = d2.ym /\ d1.dom >= d2.dom)

AlignToLastValid(date, valid_days) ==
  LET valid_after == SelectSeq(valid_days, LAMBDA d : OnOrAfter(d, date))
  IN  IF valid_after # << >> THEN valid_after[Len(valid_after)] ELSE NaT

AlignToFirstDay(date, valid_days) ==
  IF valid_days # << >> THEN valid_days[1] ELSE NaT

\* valid_after = valid_days[valid_days >= date];
\* valid_after[0] if not valid_after.empty else pd.NaT
align_to_trading_day(date, valid_days) ==
  LET valid_after == SelectSeq(valid_days, LAMBDA d : OnOrAfter(d, date))
  IN  IF valid_after # << >> THEN valid_after[1] ELSE NaT

\* trading_days inside the window: the days the run walks
WindowDays ==
  [i \in 1..(IF Len(trading_days) < MaxDays THEN Len(trading_days) ELSE MaxDays) |->
     Date(trading_days[i].ym, trading_days[i].dom)]

\* rows of a dated transactions.csv
DatedRow(dt, r) ==
  [date |-> dt, symbol |-> r.symbol, type |-> r.type, quantity |-> r.quantity,
   price |-> r.price, fee |-> r.fee]

\* dates before the window, on a trading day, between trading days and
\* after the last trading day
DatedRows ==
  { DatedRow(Date(1, 1), TxRow("A", "buy", 1, NA, NA)),
    \* 10 shares at the day's close, default fee
    DatedRow(Date(1, 1), TxRow("A", "buy", 10, NA, NA)),
    DatedRow(Date(1, 1), TxRow("A", "sell", 2, NA, NA)),
    DatedRow(Date(1, 12), TxRow("A", "buy", 1, NA, NA)),
    DatedRow(Date(1, 20), TxRow("A", "buy", 2, Val(D(101)), Val(D(2)))),
    DatedRow(Date(1, 20), TxRow("A", "sell", 1, Val(D(101)), Val(D(2)))),
    DatedRow(Date(14, 1), TxRow("A", "buy", 1, NA, NA)) }

TxFiles == UNION { [1..n -> DatedRows] : n \in 1..MaxRows }

\* tx_by_day.get_group(day): the rows whose aligned_date is the day, in
\* file order (rows aligned to NaT were dropped)
DayGroup(d) ==
  SelectSeq([i \in DOMAIN tx_df |-> i],
            LAMBDA i : align_to_trading_day(tx_df[i].date, WindowDays) = d)

\* one iteration of the transaction loop over the day's group
FileTransaction ==
  /\ pc = "tx"
  /\ tx_pos < Len(DayGroup(day))
  /\ LET i == DayGroup(day)[tx_pos + 1]
     IN  /\ TxNoPrice(tx_df[i]) \/ TxBuy(tx_df[i]) \/ TxSell(tx_df[i])
         /\ applied' = [applied EXCEPT ![i] = Append(@, [day |-> day, how |-> step'.kind])]
  /\ tx_pos' = tx_pos + 1
  /\ nRows' = nRows + 1
  /\ UNCHANGED << setupVars, aligned, rows, kpi, tx_df, events, csv, check, trigger_days, pc, trading_days, nDays, day, price,
                  filled, reinvest_weights, current_month, reinvest_day_triggered,
                  total, queue, row >>

\* the day's group is exhausted (or the day has none)
EndFileTransactions ==
  /\ pc = "tx"
  /\ tx_pos = Len(DayGroup(day))
  /\ pc' = "plan"
  /\ UNCHANGED << rows, kpi, fileVars, setupVars, events, csv, check, trigger_days, trading_days, nDays, nRows, day,
                  price, filled, reinvest_weights, ledgerVars, monthly_stats,
                  current_month, reinvest_day_triggered, total, queue, actions, row, step >>

\* a run on a dated transactions file, with an empty plan and no
\* reinvestment targets
InitTx ==
  /\ \E f \in TxFiles : InitWith(f)
  /\ reinvest_weights = << >>

NextTx ==
  \/ NextDay
  \/ FileTransaction
  \/ EndFileTransactions
  \/ EndPlan
  \/ ReinvestCheck
  \/ Snapshot

SpecTx == InitTx /\ [][NextTx]_vars

\* --------------------------------------------- the alignment on its own
\* the days the calendars of the calls are drawn from
DayPool == { Date(1, 11), Date(1, 12), Date(1, 20), Date(2, 11), Date(2, 12) }

\* ascending calendars of at most MaxDays + 1 days
Calendars ==
  UNION { { c \in [1..n -> DayPool] :
              \A i \in 1..(n - 1) : ~ OnOrAfter(c[i], c[i + 1]) } : n \in 0..(MaxDays + 1) }

\* the dates the calls align
CallDates == DayPool \cup { Date(1, 1), Date(1, 15), Date(3, 1) }

\* one call align_to_trading_day(date, valid_days); the function assigns
\* nothing to valid_days
AlignCall ==
  /\ \E date \in CallDates, valid_days \in Calendars :
       aligned' = [called |-> TRUE, date |-> date, valid_days |-> valid_days,
                   result |-> align_to_trading_day(date, valid_days),
                   valid_days_after |-> valid_days]
  /\ UNCHANGED << pc, trading_days, nDays, nRows, day, price, filled, reinvest_weights,
                  held, avg_price, cash_buffers, dividend_buffers, realized_gains,
                  monthly_stats, current_month, reinvest_day_triggered,
                  total, queue, actions, row, step, check, trigger_days, events, csv,
                  tx_df, tx_pos, applied, rows, kpi, setupVars >>

InitAlign ==
  /\ Init
  /\ reinvest_weights = << >>
  /\ trading_days = CHOOSE d \in Datasets : TRUE

NextAlign == AlignCall

SpecAlign == InitAlign /\ [][NextAlign]_vars

\* ------------------------------------- the expansion of a plan row
\* installments followed per plan row
MaxScheduled == 4
\* months before month 1 that a Timestamp can hold
MaxBack == 2

MinMonth == 1 - MaxBack

\* days of a month (of a common year)
DaysIn(ym) ==
  CASE MonthOf(ym) = 2 -> 28
    [] MonthOf(ym) \in {4, 6, 9, 11} -> 30
    [] OTHER -> 31

\* date + relativedelta(months=k): the day is clipped to the month's length
AddMonths(d, k) ==
  [ym |-> d.ym + k, dom |-> IF d.dom > DaysIn(d.ym + k) THEN DaysIn(d.ym + k) ELSE d.dom]

\* interval_months and start_date of the rows of investment_plan.csv
Intervals == { -1, 0, 1, 2 }
StartDates == { Date(1, 1), Date(1, 31), Date(2, 12), Date(3, 1) }

PlanFileRows ==
  { [symbol |-> r.symbol, amount |-> r.amount, fee |-> r.fee,
     interval_months |-> k, start_date |-> d] :
       r \in PlanRows, k \in Intervals, d \in StartDates }

\* the end of the simulation window; the window closes on a trading day
end_date == WindowDays[Len(WindowDays)]

\* one iteration of: while current <= end_date
ExpandStep ==
  /\ expansion.pc = "loop"
  /\ OnOrAfter(end_date, expansion.current)
  /\ Len(expansion.scheduled) < MaxScheduled
  /\ LET r == expansion.row
         current == expansion.current
         aligned_date == align_to_trading_day(current, WindowDays)
         next == AddMonths(current, r.interval_months)
         scheduled == IF aligned_date # NaT
                        THEN Append(expansion.scheduled,
                                    [symbol |-> r.symbol, date |-> current,
                                     aligned_date |-> aligned_date,
                                     amount |-> r.amount, fee |-> PlanFee(r)])
                        ELSE expansion.scheduled
     IN  expansion' =
           IF next.ym < MinMonth
             THEN [expansion EXCEPT !.pc = "raised", !.scheduled = scheduled]
             ELSE [expansion EXCEPT !.current = next, !.scheduled = scheduled]
  /\ UNCHANGED << pc, trading_days, nDays, nRows, day, price, filled, reinvest_weights,
                  held, avg_price, cash_buffers, dividend_buffers, realized_gains,
                  monthly_stats, current_month, reinvest_day_triggered,
                  total, queue, actions, row, step, check, trigger_days, events, csv,
                  tx_df, tx_pos, applied, rows, kpi, aligned, reinvestment_threshold >>

\* current > end_date: the row is expanded
ExpandEnd ==
  /\ expansion.pc = "loop"
  /\ ~ OnOrAfter(end_date, expansion.current)
  /\ expansion' = [expansion EXCEPT !.pc = "done"]
  /\ UNCHANGED << pc, trading_days, nDays, nRows, day, price, filled, reinvest_weights,
                  held, avg_price, cash_buffers, dividend_buffers, realized_gains,
                  monthly_stats, current_month, reinvest_day_triggered,
                  total, queue, actions, row, step, check, trigger_days, events, csv,
                  tx_df, tx_pos, applied, rows, kpi, aligned, reinvestment_threshold >>

\* the expansion of one row, over a window the followed list can cover
InitPlan ==
  /\ \E r \in PlanFileRows :
       InitSetup(<< >>, NA, [pc |-> "loop", row |-> r, current |-> r.start_date,
                            scheduled |-> << >>])
  /\ reinvest_weights = << >>
  /\ end_date.ym < MaxScheduled

NextPlan ==
  \/ ExpandStep
  \/ ExpandEnd

\* the loop is sequential code: it keeps running while it can
SpecPlan == InitPlan /\ [][NextPlan]_vars /\ WF_vars(NextPlan)

\* ------------------------------------------------------------- properties
BuyKinds == {"buy", "plan", "reinvest"}
Executed(a) == \E i \in DOMAIN actions : actions[i].act = a

\* C1: after every trading day and after every individual buy, sell, plan
\* installment and reinvestment purchase, the held quantity of every symbol
\* is >= 0.
C1_HeldNonNegative == \A s \in Syms : held[s] >= 0

\* a reinvestment purchase on a day that also saw a sell and a plan buy
C1_Witness ==
  /\ step.kind = "reinvest"
  /\ Executed("sell")
  /\ Executed("plan buy")

\* C2: a sell whose quantity exceeds the held quantity changes no state and
\* is recorded as rejected in the day's action trace.
C2_RejectedSellRecorded ==
  step.kind = "sell_rejected" =>
    /\ held = step.pre.held
    /\ avg_price = step.pre.avg_price
    /\ realized_gains = step.pre.realized_gains
    /\ monthly_stats = step.pre.monthly_stats
    /\ \E i \in DOMAIN actions :
         /\ actions[i].act = "sell rejected"
         /\ actions[i].symbol = step.tx.symbol

\* the part of C2 the code keeps: a rejected sell changes no state (and
\* appends nothing to the action trace)
RejectedSellChangesNothing ==
  step.kind = "sell_rejected" =>
    /\ held = step.pre.held
    /\ avg_price = step.pre.avg_price
    /\ realized_gains = step.pre.realized_gains
    /\ cash_buffers = step.pre.cash_buffers
    /\ dividend_buffers = step.pre.dividend_buffers
    /\ monthly_stats = step.pre.monthly_stats
    /\ actions = step.pre.actions

\* the sums the average of the last executed buy is taken over
BuyNum == step.pre.avg_price[step.tx.symbol] * step.pre.held[step.tx.symbol]
            + step.tx.price.v * step.tx.quantity
BuyDen == step.pre.held[step.tx.symbol] + step.tx.quantity

BuyAfterSoldOut ==
  /\ step.kind \in BuyKinds
  /\ step.pre.held[step.tx.symbol] = 0
  /\ step.pre.avg_price[step.tx.symbol] # 0
  /\ step.pre.avg_price[step.tx.symbol] # step.tx.price.v

C5_NoPurchaseBelowThreshold ==
  Executed("reinvest") =>
    /\ check.day = day
    /\ check.due
    /\ check.total >= D(250)

C5_Witness == step.kind = "reinvest"

\* C6: right after an executed reinvestment every dividend_buffer is zero
\* and every cash_buffer holds only the remainder of the symbol's own
\* allocation (what the loop allocated to it minus what it spent on it).
C6_BuffersAfterReinvest ==
  step.kind = "reset" =>
    \A s \in Syms :
      /\ dividend_buffers[s] = 0
      /\ cash_buffers[s] = check.alloc[s] - check.spent[s]

\* C7: the pooled total before an executed reinvestment equals the cost of
\* its purchases plus the buffers after it, and a plan installment puts
\* exactly amount - cost into the buffers.
C7_CashConserved ==
  /\ step.kind = "reset" =>
       check.total = SumOver(check.spent, Syms) + PooledTotal
  /\ step.kind = "plan" =>
       step.tx.amount =
         step.tx.quantity * step.tx.price.v + step.tx.fee.v
           + (PooledTotal - SumOver([s \in Syms |->
                step.pre.cash_buffers[s] + step.pre.dividend_buffers[s]], Syms))

\* the part of C7 the code keeps: plan installments conserve cash
PlanConservesCash ==
  step.kind = "plan" =>
    step.tx.amount =
      step.tx.quantity * step.tx.price.v + step.tx.fee.v
        + (cash_buffers[step.tx.symbol] - step.pre.cash_buffers[step.tx.symbol])

\* C8: on a trigger day whose pooled total is below the threshold no
\* purchase occurs and the reinvestment step changes no buffer, quantity or
\* average cost; the buffers are reset only after a check that met the
\* threshold.
C8_BelowThresholdNoChange ==
  /\ (check.day = day /\ check.due /\ check.total < D(250)) =>
       /\ pc # "targets"
       /\ held = check.pre.held
       /\ avg_price = check.pre.avg_price
       /\ cash_buffers = check.pre.cash_buffers
       /\ dividend_buffers = check.pre.dividend_buffers
       /\ actions = check.pre.actions
  /\ step.kind = "reset" => check.total >= D(250)

\* a trigger check that found a non-empty pool below the threshold
C8_Witness ==
  /\ check.day = day
  /\ check.due
  /\ check.total > 0
  /\ check.total < D(250)
  /\ pc = "snapshot"

C10_NetIdentity ==
  \A i \in DOMAIN events :
    LET ev == events[i]
        c == DpsScale \div 100
    IN  (ev.derived /\ ev.finalized = 1) =>
          /\ ev.dividend_net * c =
               ev.qty * ev.dividend_per_share_gross * ev.fx_to_base
                 - ev.withholding_tax * c - ev.domestic_tax * c
                 - ev.broker_fee * (DpsScale \div FeeScale)
          /\ ev.dividend_gross =
               Q2Cents(ev.recorded.qty * ev.recorded.dps * ev.recorded.fx, DpsScale)

\* the derived fields of an event: gross, withholding, domestic, net (cents)
DerivedOf(ev) ==
  << ev.dividend_gross, ev.withholding_tax, ev.domestic_tax, ev.dividend_net >>

\* C11: finalize() is idempotent: every later call, directly or through
\* to_csv(), leaves dividend_gross, withholding_tax, domestic_tax and
\* dividend_net equal to the values the first call set from the recorded
\* arguments.
C11_FinalizeIdempotent ==
  \A i \in DOMAIN events :
    events[i].derived =>
      DerivedOf(events[i]) = DerivedOf(FinalizeEvent(NewEvent(events[i].recorded)))

\* C12: on the first finalize() the derived fields are the half-even
\* roundings to cents of gross = qty * dps * fx, withholding = gross * rate,
\* domestic = (gross - withholding) * domestic rate and net = gross -
\* withholding - domestic - fee, all taken on the values as recorded; qty 10,
\* dps 1.00, fx 1, rates 0.15 and 0.10, fee 0 give 10.00, 1.50, 0.85, 7.65.
C12_FirstFinalizeReference ==
  \A i \in DOMAIN events :
    LET ev == events[i]
        a == ev.recorded
        all == DpsScale * RateScale * DomScale
        gross == a.qty * a.dps * a.fx * RateScale * DomScale
        wh == a.qty * a.dps * a.fx * a.wr * DomScale
        dom == (a.qty * a.dps * a.fx * RateScale - a.qty * a.dps * a.fx * a.wr) * a.dr
        net == gross - wh - dom - a.fee * (all \div FeeScale)
    IN  (ev.derived /\ ev.finalized = 1) =>
          /\ ev.dividend_gross = RoundHalfEven(gross, all \div 100)
          /\ ev.withholding_tax = RoundHalfEven(wh, all \div 100)
          /\ ev.domestic_tax = RoundHalfEven(dom, all \div 100)
          /\ ev.dividend_net = RoundHalfEven(net, all \div 100)
          /\ a = [qty |-> 10, dps |-> 1000, fx |-> 1, wr |-> 150, dr |-> 10, fee |-> 0]
               => DerivedOf(ev) = << 1000, 150, 85, 765 >>

\* the scenario's event after its first finalize()
C12_Witness ==
  \E i \in DOMAIN events :
    /\ events[i].finalized = 1
    /\ events[i].recorded =
         [qty |-> 10, dps |-> 1000, fx |-> 1, wr |-> 150, dr |-> 10, fee |-> 0]

\* a symbol that pays a dividend today on shares held through the whole day
DividendReceived(s) ==
  /\ price[s].idx
  /\ price[s].Dividend > 0
  /\ held[s] > 0
  /\ \A i \in DOMAIN actions : actions[i].symbol # s

\* C13: every dividend event dated on a simulated day increases its symbol's
\* dividend_buffer and the month's 'dividends' aggregate by the event's
\* (positive) net amount: at the day's snapshot the month's aggregate is
\* positive, and so is the symbol's buffer unless the day's reinvestment
\* reset it.
C13_DividendsPosted ==
  step.kind = "snapshot" =>
    \A s \in Syms :
      DividendReceived(s) =>
        /\ monthly_stats[day.ym].dividends > 0
        /\ \/ dividend_buffers[s] > 0
           \/ check.day = day /\ check.due /\ ThresholdMet(check.total)

\* what the day loop does instead: the buffers and the month's 'dividends'
\* aggregate are never credited
DividendsNeverPosted ==
  /\ \A s \in Syms : dividend_buffers[s] = 0
  /\ \A m \in DOMAIN monthly_stats : monthly_stats[m].dividends = 0

\* a day that pays a dividend on a held position
DividendDayReached == step.kind = "snapshot" /\ DividendReceived("A")

\* WindowDays[k] is the first trading day of the window on or after the date
\* of row i
FirstDayOnOrAfter(i, k) ==
  /\ OnOrAfter(WindowDays[k], tx_df[i].date)
  /\ \A j \in 1..(k - 1) : ~ OnOrAfter(WindowDays[j], tx_df[i].date)

\* the transaction loop of the k-th trading day has finished
TransactionsDone(k) == k < nDays \/ (k = nDays /\ pc # "tx")

\* C14 (as stated): every transaction whose date aligns inside the window is
\* applied to the ledger (executed, a sell beyond the holding being rejected
\* by the ledger) exactly once, on the first trading day on or after its
\* date, and on no other day.
C14_AppliedOnceOnAlignedDay ==
  \A i \in DOMAIN tx_df : \A k \in DOMAIN WindowDays :
    FirstDayOnOrAfter(i, k) =>
      /\ Len(applied[i]) <= 1
      /\ \A n \in DOMAIN applied[i] : applied[i][n].day = WindowDays[k]
      /\ TransactionsDone(k) =>
           /\ Len(applied[i]) = 1
           /\ applied[i][1].how \in {"buy", "sell", "sell_rejected"}

\* C14 (amended): every such transaction is taken by the transaction loop
\* exactly once, on the first trading day on or after its date, and on no
\* other day; it is skipped there, and never retried, exactly when its
\* symbol has no price row that day (a sell beyond the holding is rejected);
\* a transaction dated after the last trading day is never taken.
C14_TakenOnceOnAlignedDay ==
  \A i \in DOMAIN tx_df :
    /\ \A k \in DOMAIN WindowDays :
         FirstDayOnOrAfter(i, k) =>
           /\ Len(applied[i]) <= 1
           /\ \A n \in DOMAIN applied[i] : applied[i][n].day = WindowDays[k]
           /\ TransactionsDone(k) =>
                /\ Len(applied[i]) = 1
                /\ applied[i][1].how \in {"buy", "sell", "sell_rejected", "tx_skip"}
                /\ applied[i][1].how = "tx_skip" <=>
                     ~ trading_days[k][tx_df[i].symbol].idx
    /\ (\A k \in DOMAIN WindowDays : ~ OnOrAfter(WindowDays[k], tx_df[i].date)) =>
         applied[i] = << >>

\* a row dated between two trading days that was skipped on the later one,
\* after a row executed on the first day
C14_Witness ==
  /\ \E i \in DOMAIN tx_df :
       /\ applied[i] # << >>
       /\ applied[i][1].day # tx_df[i].date
       /\ applied[i][1].day # WindowDays[1]
       /\ applied[i][1].how = "tx_skip"
  /\ \E i \in DOMAIN tx_df :
       applied[i] # << >> /\ applied[i][1].how = "buy"

\* a row dated between two trading days, executed on the later one
LateRowExecuted ==
  \E i \in DOMAIN tx_df :
    /\ applied[i] # << >>
    /\ applied[i][1].day # tx_df[i].date
    /\ applied[i][1].day # WindowDays[1]
    /\ applied[i][1].how \in {"buy", "sell"}

\* the file of the single-buy scenario: 10 shares at the close, default fee
SingleBuyFile == << DatedRow(Date(1, 1), TxRow("A", "buy", 10, NA, NA)) >>

\* C15: an executed ordinary buy of q at p with fee f adds exactly q*p to
\* 'contributions' and f to 'fees' of the month of the day it is executed
\* on, and changes no other aggregate of any month; a single buy of 10 at
\* 100 with fee 5 gives quantity 10, average cost 100, total value 1000,
\* contributions 1000 and fees 5 at the day's snapshot.
C15_BuyAggregates ==
  /\ step.kind = "buy" =>
       /\ \E k \in DOMAIN WindowDays :
            WindowDays[k] = day /\ FirstDayOnOrAfter(DayGroup(day)[tx_pos], k)
       /\ monthly_stats =
            [step.pre.monthly_stats EXCEPT
               ![day.ym].contributions = @ + step.tx.quantity * step.tx.price.v,
               ![day.ym].fees = @ + step.tx.fee.v]
  /\ (tx_df = SingleBuyFile /\ step.kind = "snapshot" /\ nDays = 1) =>
       /\ held["A"] = 10
       /\ avg_price["A"] = D(100)
       /\ row.total_value = D(1000)
       /\ monthly_stats[day.ym].contributions = D(1000)
       /\ monthly_stats[day.ym].fees = D(5)

\* a buy executed in the second month of the run, at its own price and fee
C15_Witness ==
  /\ step.kind = "buy"
  /\ Cardinality(DOMAIN monthly_stats) = 2
  /\ step.tx.fee.v # D(BROKER_FEE)
  /\ step.pre.monthly_stats[day.ym].contributions = 0

\* the snapshot of the single-buy scenario
SingleBuySnapshot == tx_df = SingleBuyFile /\ step.kind = "snapshot" /\ nDays = 1

\* the target, allocation, fee and price of the target-loop iteration just
\* executed, and the shares it bought
TgtBought == held[step.tx.symbol] - step.pre.held[step.tx.symbol]
TgtLeft(n) ==
  step.tx.share_alloc - n * price[step.tx.symbol].Close - step.tx.fee.v

\* C16: for each target with a price on the trigger day the shares bought
\* are the largest n >= 0 with n*price + fee <= allocation, the case
\* n*price + fee = allocation included, and after a purchase the target's
\* cash_buffer is allocation - n*price - fee; allocation 500 at price 50
\* with fee 2 buys 9 shares for 452 and leaves 48.
C16_LargestAffordable ==
  /\ (step.kind \in {"reinvest", "reinvest_none"}
        /\ price[step.tx.symbol].idx
        /\ step.tx.share_alloc >= step.tx.fee.v) =>
       /\ TgtBought >= 0
       /\ TgtLeft(TgtBought) >= 0
       /\ TgtLeft(TgtBought + 1) < 0
       /\ TgtBought > 0 => cash_buffers[step.tx.symbol] = TgtLeft(TgtBought)
  /\ AffordableQty(D(500), D(2), D(50)) = 9
  /\ ReinvestAffordable(9, D(500), 9 * D(50) + D(2))
  /\ CashAfterReinvest(0, D(500), 9 * D(50) + D(2)) = D(48)

\* the part of C16 the code keeps: with n the largest affordable count, it
\* buys n and leaves allocation - n*price - fee when that is positive, and
\* buys nothing when it is zero
BoughtWhenStrictlyAffordable ==
  (step.kind \in {"reinvest", "reinvest_none"}
     /\ price[step.tx.symbol].idx
     /\ step.tx.share_alloc >= step.tx.fee.v) =>
    \E n \in 0..(step.tx.share_alloc \div price[step.tx.symbol].Close) :
      /\ TgtLeft(n) >= 0
      /\ TgtLeft(n + 1) < 0
      /\ IF TgtLeft(n) > 0
           THEN /\ TgtBought = n
                /\ n > 0 => cash_buffers[step.tx.symbol] = TgtLeft(n)
           ELSE /\ TgtBought = 0
                /\ cash_buffers = step.pre.cash_buffers

\* an allocation that pays for whole shares and the fee exactly
ExactAllocation ==
  /\ step.kind = "reinvest_none"
  /\ price[step.tx.symbol].idx
  /\ TgtLeft(3) = 0

\* C17: the reported capital gains tax is max(realized + unrealized gain of
\* the last day, 0) times the flat rate and so never negative; with a total
\* loss the tax is 0 and the net-of-tax gain equals the loss.
C17_TaxOnPositiveGainOnly ==
  kpi.exported =>
    /\ kpi.capital_gain_tax =
         (IF kpi.capital_gain > 0 THEN kpi.capital_gain ELSE 0) * TAX_RATE_DEFAULT
    /\ kpi.capital_gain_tax >= 0
    /\ kpi.capital_gain < 0 =>
         /\ kpi.capital_gain_tax = 0
         /\ kpi.net_capital_gain = kpi.capital_gain * 100

\* what the export reports instead: the rate times the signed gain
TaxOnSignedGain ==
  kpi.exported =>
    /\ kpi.capital_gain_tax = kpi.capital_gain * TAX_RATE_DEFAULT
    /\ kpi.net_capital_gain = kpi.capital_gain * (100 - TAX_RATE_DEFAULT)

\* an export after a run that ends with a total loss
LossExported == kpi.exported /\ kpi.capital_gain < 0

\* C18: on every day of the daily total_value series, the days before the
\* first purchase (value and running peak 0) included, the drawdown is
\* defined and <= 0, and it is 0 on every day whose value equals the
\* running peak.
C18_DrawdownDefinedNonPositive ==
  kpi.exported =>
    \A i \in DOMAIN kpi.drawdown :
      /\ ~ kpi.drawdown[i].nan
      /\ kpi.drawdown[i].num <= 0
      /\ Csv4(rows[i].total_value) = CumMax(TotalValueSeries, i) =>
           kpi.drawdown[i].num = 0

\* the part of C18 the code keeps: once the running peak is positive the
\* drawdown is defined, <= 0, and 0 exactly at the peak
DrawdownAfterFirstValue ==
  kpi.exported =>
    \A i \in DOMAIN kpi.drawdown :
      IF CumMax(TotalValueSeries, i) = 0
        THEN kpi.drawdown[i].nan
        ELSE /\ ~ kpi.drawdown[i].nan
             /\ kpi.drawdown[i].den > 0
             /\ kpi.drawdown[i].num <= 0
             /\ kpi.drawdown[i].num = 0 <=>
                  Csv4(rows[i].total_value) = CumMax(TotalValueSeries, i)

\* an export of a run that bought nothing on its first day and was below
\* its peak later
DrawdownCases ==
  /\ kpi.exported
  /\ kpi.drawdown[1].nan
  /\ \E i \in DOMAIN kpi.drawdown : kpi.drawdown[i].num < 0

\* C19: with reinvestment enabled and empty reinvestment weights the run
\* goes on and no reinvestment purchase is executed on any day: the target
\* loop has nothing to iterate, no row records a reinvest action, and a
\* check that met the threshold is followed by the reset and the snapshot.
C19_EmptyWeightsNoPurchase ==
  (ENABLE_MONTHLY_REINVESTMENT /\ reinvest_weights = << >>) =>
    /\ step.kind \notin {"reinvest", "reinvest_none"}
    /\ pc = "targets" => queue = << >>
    /\ \A s \in Syms : check.spent[s] = 0
    /\ \A i \in DOMAIN rows : \A n \in DOMAIN rows[i].actions :
         rows[i].actions[n].act # "reinvest"
    /\ \A m \in DOMAIN monthly_stats : monthly_stats[m].reinvested = 0

\* a day whose check met the threshold with empty weights, carried through
\* to its row
C19_Witness ==
  /\ reinvest_weights = << >>
  /\ step.kind = "snapshot"
  /\ check.day = day
  /\ check.due
  /\ ThresholdMet(check.total)
  /\ rows # << >>
  /\ rows[Len(rows)].date = day

\* the days of the last call's calendar
CallDays == { aligned.valid_days[i] : i \in DOMAIN aligned.valid_days }

\* C20: align_to_trading_day(d, days) on an ascending calendar returns the
\* minimum day that is >= d, returns the no-alignment value when d is after
\* the last day (or the calendar is empty), and leaves days as it was.
C20_AlignReturnsEarliest ==
  aligned.called =>
    /\ IF \E e \in CallDays : OnOrAfter(e, aligned.date)
         THEN /\ aligned.result \in CallDays
              /\ OnOrAfter(aligned.result, aligned.date)
              /\ \A e \in CallDays :
                   OnOrAfter(e, aligned.date) => OnOrAfter(e, aligned.result)
         ELSE aligned.result = NaT
    /\ aligned.valid_days_after = aligned.valid_days

\* a date strictly between two days of the calendar, with a later day after
\* the result
C20_Witness ==
  /\ aligned.called
  /\ aligned.result \notin {NaT, aligned.date}
  /\ aligned.result # aligned.valid_days[1]
  /\ aligned.result # aligned.valid_days[Len(aligned.valid_days)]

\* a date after the last day of a non-empty calendar
NoAlignment ==
  /\ aligned.called
  /\ aligned.valid_days # << >>
  /\ aligned.result = NaT

\* the phase of the day loop that writes an entry of the action log
PhaseOf(a) ==
  CASE a.act \in {"buy", "sell"} -> 1
    [] a.act = "plan buy" -> 2
    [] a.act = "reinvest" -> 3

\* C21: within every trading day all ordinary transactions are applied
\* before any plan installment, and all plan installments before any
\* reinvestment purchase; the day's action log lists the executed actions
\* in that order, and the day's snapshot is valued from the ledger state
\* after all three phases.
C21_PhaseOrder ==
  /\ \A i, j \in DOMAIN actions : i < j => PhaseOf(actions[i]) <= PhaseOf(actions[j])
  /\ step.kind \in {"buy", "sell", "sell_rejected", "tx_skip"}
       => /\ ~ Executed("plan buy") /\ ~ Executed("reinvest")
          /\ check.day # day
  /\ step.kind \in {"plan", "plan_none", "plan_skip"}
       => /\ ~ Executed("reinvest")
          /\ check.day # day
  /\ step.kind \in {"reinvest", "reinvest_none"}
       => /\ check.day = day
          /\ pc = "targets"
  /\ step.kind = "snapshot"
       => /\ row.date = day
          /\ row.actions = actions
          /\ row.total_value = SumOver([s \in Syms |-> ValueOf(s)], Syms)
          /\ row.unrealized_gain = SumOver([s \in Syms |-> UnrealizedOf(s)], Syms)
          /\ row.realized_gain = SumOver(realized_gains, Syms)
          /\ step.pre.held = held /\ step.pre.avg_price = avg_price
          /\ rows[Len(rows)] = row

\* a day's row whose log holds a transaction, a plan buy and a
\* reinvestment purchase
C21_Witness ==
  /\ step.kind = "snapshot"
  /\ Len(row.actions) = 3
  /\ PhaseOf(row.actions[1]) = 1
  /\ PhaseOf(row.actions[2]) = 2
  /\ PhaseOf(row.actions[3]) = 3

\* reinvest_weights[tgt]
WeightOf(tgt) ==
  LET i == CHOOSE k \in DOMAIN reinvest_weights : reinvest_weights[k][1] = tgt
  IN  reinvest_weights[i][2]

\* C22: on a reinvestment trigger with several targets, every target's
\* allocation equals the pooled total measured at the trigger times its
\* weight, independent of what earlier targets spent.
C22_AllocationFromTriggerTotal ==
  step.kind \in {"reinvest", "reinvest_none"}
    => step.tx.share_alloc = ShareAlloc(check.total, WeightOf(step.tx.symbol))

\* what the loop does: the allocation is taken from the total that is left
\* after the purchases of the targets before it
AllocationFromRemainingTotal ==
  /\ step.kind \in {"reinvest", "reinvest_none"}
       => step.tx.share_alloc = ShareAlloc(step.pre.total, WeightOf(step.tx.symbol))
  /\ pc = "targets" => total = check.total - SumOver(check.spent, Syms)

\* a second target is allocated after the first one bought
LaterTargetAfterPurchase ==
  /\ step.kind \in {"reinvest", "reinvest_none"}
  /\ step.pre.total < check.total

\* C23: in each month reinvestment triggers on the first trading day that
\* is past the cutoff and has a pooled total >= the threshold: a day past
\* the cutoff whose pooled total meets the threshold runs the reinvestment
\* unless it already ran earlier in that month.
C23_TriggerWaitsForThreshold ==
  (check.day = day /\ day.dom > CUTOFF_DAY /\ ThresholdMet(check.total))
    => day.ym \in check.executed

\* what the loop does: the month's only trigger check is on its first
\* processed day past the cutoff, whatever the pooled total is then
OneCheckPerMonth ==
  (check.day = day /\ check.due)
    => /\ day.dom > CUTOFF_DAY
       /\ ~ check.pre.reinvest_day_triggered \/ MonthOf(day.ym) # check.pre.current_month
       /\ reinvest_day_triggered

\* the pooled total reaches the threshold on a later day of a month whose
\* trigger check found it below
ThresholdReachedAfterCheck ==
  /\ check.day = day /\ ~ check.due
  /\ day.dom > CUTOFF_DAY
  /\ ThresholdMet(check.total)
  /\ \E d \in trigger_days : d.ym = day.ym /\ d.dom < day.dom
  /\ day.ym \notin check.executed

\* the positions in rows of the days of month m
RowsOfMonth(m) == { i \in DOMAIN rows : rows[i].date.ym = m }
FirstOf(S) == CHOOSE i \in S : \A j \in S : i <= j
LastOf(S) == CHOOSE i \in S : \A j \in S : j <= i

\* C24: for every month touched by the run, first_value is the total_value
\* of the first trading day processed in that month, also when that value
\* is 0, and last_value is the total_value of the most recently processed
\* trading day of that month.
C24_FirstAndLastValue ==
  step.kind = "snapshot"
    => \A m \in DOMAIN monthly_stats :
         RowsOfMonth(m) # {}
           => /\ monthly_stats[m].first_value = rows[FirstOf(RowsOfMonth(m))].total_value
              /\ monthly_stats[m].last_value = rows[LastOf(RowsOfMonth(m))].total_value

\* what the loop does: first_value is the month's first non-zero
\* total_value (0 while there is none), last_value the latest one
FirstNonZeroValue ==
  step.kind = "snapshot"
    => \A m \in DOMAIN monthly_stats :
         LET nz == { i \in RowsOfMonth(m) : rows[i].total_value # 0 }
         IN  RowsOfMonth(m) # {}
               => /\ monthly_stats[m].first_value =
                       IF nz = {} THEN 0 ELSE rows[FirstOf(nz)].total_value
                  /\ monthly_stats[m].last_value = rows[LastOf(RowsOfMonth(m))].total_value

\* a month whose first day is valued 0 and a later day is not
ZeroFirstDay ==
  /\ step.kind = "snapshot"
  /\ Cardinality(RowsOfMonth(month_str)) > 1
  /\ rows[FirstOf(RowsOfMonth(month_str))].total_value = 0
  /\ row.total_value # 0

\* the symbol has no price in filled_price_data for the day
NoFilledPrice(s) == ~ (InFullIndex /\ filled[s].idx)

\* C25: when a held symbol has no price for a day, its valuation
\* contribution is skipped: it adds 0 to the day's total_value and 0 to the
\* day's unrealized_gain, and its quantity and average cost are unchanged.
C25_NoPriceContributesNothing ==
  step.kind = "snapshot"
    => LET priced == { s \in Syms : ~ NoFilledPrice(s) }
       IN  /\ row.total_value = SumOver([s \in Syms |-> ValueOf(s)], priced)
           /\ row.unrealized_gain = SumOver([s \in Syms |-> UnrealizedOf(s)], priced)
           /\ held = step.pre.held
           /\ avg_price = step.pre.avg_price

\* what the snapshot does: an unpriced symbol adds 0 to total_value and
\* minus its cost basis to unrealized_gain
CostBasisBookedAsLoss ==
  step.kind = "snapshot"
    => /\ \A s \in Syms : NoFilledPrice(s)
            => ValueOf(s) = 0 /\ UnrealizedOf(s) = - (avg_price[s] * held[s])
       /\ row.total_value = SumOver([s \in Syms |-> ValueOf(s)], Syms)
       /\ row.unrealized_gain = SumOver([s \in Syms |-> UnrealizedOf(s)], Syms)
       /\ held = step.pre.held
       /\ avg_price = step.pre.avg_price

\* a snapshot with a held symbol that has no price for the day
HeldWithoutPrice ==
  /\ step.kind = "snapshot"
  /\ \E s \in Syms : held[s] > 0 /\ NoFilledPrice(s)

\* C26: a plan installment of amount a with fee f on a symbol priced p buys
\* n = floor((a - f) / p) shares when n > 0 and adds the remainder
\* a - n * p - f, which is >= 0 and < p, to the symbol's cash_buffer; when
\* n <= 0 the installment changes no ledger state, buffer or monthly
\* aggregate.
C26_PlanInstallment ==
  LET sym == step.tx.symbol
      a == step.tx.amount
      f == step.tx.fee.v
      p == step.tx.price.v
      n == step.tx.quantity
      rem == a - n * p - f
  IN  /\ step.kind = "plan"
           => /\ n > 0
              /\ n * p <= a - f /\ a - f < (n + 1) * p
              /\ rem >= 0 /\ rem < p
              /\ held = [step.pre.held EXCEPT ![sym] = @ + n]
              /\ cash_buffers = [step.pre.cash_buffers EXCEPT ![sym] = @ + rem]
              /\ dividend_buffers = step.pre.dividend_buffers
      /\ step.kind = "plan_none"
           => /\ a - f < p
              /\ held = step.pre.held
              /\ avg_price = step.pre.avg_price
              /\ cash_buffers = step.pre.cash_buffers
              /\ dividend_buffers = step.pre.dividend_buffers
              /\ realized_gains = step.pre.realized_gains
              /\ monthly_stats = step.pre.monthly_stats
              /\ actions = step.pre.actions

\* an installment that bought shares and left a remainder in a buffer that
\* already held one
C26_Witness ==
  /\ step.kind = "plan"
  /\ step.pre.cash_buffers[step.tx.symbol] > 0
  /\ cash_buffers[step.tx.symbol] > step.pre.cash_buffers[step.tx.symbol]

\* an installment whose amount does not cover its fee
InstallmentBelowFee ==
  /\ step.kind = "plan_none"
  /\ step.tx.amount < step.tx.fee.v
  /\ step.pre.held[step.tx.symbol] > 0

\* the daily fees the rows of month m report, added up
DailyFeesOf(m) == SumOver([i \in DOMAIN rows |-> rows[i].daily_fee], RowsOfMonth(m))

\* C27: the daily fee of each snapshot is the sum of the fees of the buy,
\* sell, plan and reinvestment actions executed on that day only, and 0 on
\* days without actions: after every day, the daily fees of a month's rows
\* add up to the fees the month's actions paid.
C27_DailyFeeOfTheDay ==
  step.kind = "snapshot"
    => /\ \A m \in DOMAIN monthly_stats : DailyFeesOf(m) = monthly_stats[m].fees
       /\ row.actions = << >> => row.daily_fee = 0

\* what the row holds: the month's fees so far on a day with actions
DailyFeeIsMonthToDate ==
  step.kind = "snapshot"
    => row.daily_fee = IF row.actions # << >> THEN monthly_stats[month_str].fees ELSE 0

\* a day with actions after an earlier day of the month that paid fees
FeesOnTwoDays ==
  /\ step.kind = "snapshot"
  /\ row.actions # << >>
  /\ \E i \in RowsOfMonth(month_str) :
        /\ i < Len(rows)
        /\ rows[i].daily_fee > 0
        /\ rows[i].daily_fee < row.daily_fee

\* C28: when run_simulation is called with a reinvestment_threshold
\* argument, that value is the threshold the trigger compares the pooled
\* total with: on the day of the month's trigger check the reinvestment
\* runs exactly if the pooled total is >= the argument.
C28_ArgumentIsThreshold ==
  (check.day = day /\ check.due)
    => (day.ym \in check.executed <=> check.total >= reinvestment_threshold)

\* what the check compares with: the configured constant, in every run
ArgumentNeverRead ==
  (check.day = day /\ check.due)
    => (day.ym \in check.executed <=> check.total >= D(REINVESTMENT_THRESHOLD))

\* a trigger check whose pooled total lies between the argument and the
\* configured threshold
TotalBetweenThresholds ==
  /\ check.day = day /\ check.due
  /\ check.total >= reinvestment_threshold
  /\ check.total < D(REINVESTMENT_THRESHOLD)

\* the scheduled dates of the installments increase strictly and lie
\* between the row's start_date and the end of the window
IncreasingWithinWindow(sched, start) ==
  /\ \A i, j \in DOMAIN sched : i < j => ~ OnOrAfter(sched[i].date, sched[j].date)
  /\ \A i \in DOMAIN sched : OnOrAfter(sched[i].date, start) /\ OnOrAfter(end_date, sched[i].date)

\* C29: the expansion of every investment-plan row into dated installments
\* terminates and yields finitely many installments with strictly
\* increasing scheduled dates between start_date and the simulation end,
\* for every integer interval_months including 0 and negative values: at
\* every point of the loop the installments appended so far have strictly
\* increasing dates inside the window, and the loop does not end by raising.
C29_IncreasingDatesUntilDone ==
  /\ IncreasingWithinWindow(expansion.scheduled, expansion.row.start_date)
  /\ expansion.pc # "raised"

\* the expansion of the row reaches its end
ExpansionReachesDone ==
  <>(/\ expansion.pc = "done"
     /\ IncreasingWithinWindow(expansion.scheduled, expansion.row.start_date))

\* what holds: a row with interval_months >= 1 is expanded completely
PositiveIntervalTerminates ==
  (expansion.pc = "loop" /\ expansion.row.interval_months >= 1)
    ~> (/\ expansion.pc = "done"
        /\ IncreasingWithinWindow(expansion.scheduled, expansion.row.start_date))

\* a row with interval_months 0 has appended the same date again
SameDateAgain ==
  /\ expansion.pc = "loop"
  /\ expansion.row.interval_months = 0
  /\ Len(expansion.scheduled) = MaxScheduled
  /\ expansion.scheduled[1].date = expansion.scheduled[MaxScheduled].date

\* C30: in every reachable state of the day loop every symbol's
\* cash_buffer and dividend_buffer are >= 0.
C30_BuffersNonNegative ==
  \A s \in Syms : cash_buffers[s] >= 0 /\ dividend_buffers[s] >= 0

\* a reinvestment purchase that replaced a target's buffer by a smaller
\* remainder, after plan installments had filled the buffers
C30_Witness ==
  /\ step.kind = "reinvest"
  /\ step.pre.cash_buffers[step.tx.symbol] > cash_buffers[step.tx.symbol]
  /\ cash_buffers[step.tx.symbol] > 0
  /\ \E s \in Syms : s # step.tx.symbol /\ cash_buffers[s] > 0
====
